---------------------------- MODULE Spec2Model ----------------------------
(***************************************************************************)
(* Model of the schedule reconciliation engine of update_tipoff_times.py:  *)
(* the line parser, the name normalizer and fuzzy matcher, match_game, the *)
(* time converter, update_line_with_time and the line scan of              *)
(* process_schedule_file.                                                  *)
(*                                                                         *)
(* Python strings are TLA+ strings, read as sequences of one-character     *)
(* strings through Len, SubSeq and \o.  Positions are 1-based.             *)
(***************************************************************************)
EXTENDS Integers, Sequences, FiniteSets, TLC

VARIABLES
    \* update_line_with_time applied repeatedly
    rw_line,          \* the original_line argument of the first application
    rw_time,          \* the new_time argument
    rw_out,           \* the results of the successive applications, oldest first
    \* one call of match_game
    m_game,           \* the game argument
    m_pool,           \* the official_games argument
    m_i,              \* the number of candidates the for loop has consumed
    best_match,       \* index in m_pool of the best candidate so far, 0 for None
    best_score,
    m_pc,             \* "loop", "returned"
    m_results,        \* the values returned by the calls made so far
    \* one run of process_schedule_file
    config,           \* the team's entry of TEAM_CONFIG
    file_text,        \* the content of the schedule file on disk
    log_text,         \* the unmatched log on disk: None or <<content>>
    official_games,   \* the pool the fetch layer delivered
    lines,
    line_i,           \* the number of lines the for loop (index i) has consumed
    current_league,   \* None or <<league>>
    updated_lines,
    unmatched_games,
    updated_count,
    skipped_count,
    pc,               \* "start", "scan", "write", "done"
    result,           \* None or <<updated_count, skipped_count>>
    run_no,             \* the number of earlier run_no over the same file
    \* one run of main
    schedule_files,   \* the files of the run: name, whether on disk, whether configured
    file_i,           \* the number of files the for loop has consumed
    total_updated,
    total_skipped,
    printed,          \* what the run has printed per file and at the end, oldest first
    main_pc,          \* "loop", "done"
    \* one call of extract_game_info
    p_line,           \* the line argument
    p_league,         \* the current_league argument
    p_game,           \* the value returned
    p_pc,             \* "call", "returned"
    \* normalize_team_name applied repeatedly
    n_name,           \* the name argument of the first application
    n_out,            \* the results of the successive applications, oldest first
    \* one conversion of a kickoff to the time written into the line
    c_local,          \* the kickoff_local of the candidate
    c_tz,             \* the timezone of the team's configuration
    c_out             \* None or <<the time string>>

rwVars == <<rw_line, rw_time, rw_out>>

matchVars == <<m_game, m_pool, m_i, best_match, best_score, m_pc, m_results>>

fileVars == <<config, file_text, log_text, official_games, lines, line_i, current_league,
              updated_lines, unmatched_games, updated_count, skipped_count, pc, result,
              run_no>>

mainVars == <<schedule_files, file_i, total_updated, total_skipped, printed, main_pc>>

parseVars == <<p_line, p_league, p_game, p_pc>>

normVars == <<n_name, n_out>>

convVars == <<c_local, c_tz, c_out>>

pureVars == <<parseVars, normVars, convVars>>

vars == <<rwVars, matchVars, fileVars, mainVars, pureVars>>

---------------------------------------------------------------------------
(* Python str primitives *)

\* None; an Optional[str] is None or <<s>>
None == <<>>

CharAt(s, i) == IF i >= 1 /\ i <= Len(s) THEN SubSeq(s, i, i) ELSE ""

Min(x, y) == IF x <= y THEN x ELSE y

Max(x, y) == IF x >= y THEN x ELSE y

SetMax(S) == CHOOSE x \in S : \A y \in S : x >= y

SetMin(S) == CHOOSE x \in S : \A y \in S : x <= y

\* the characters of s at the positions i..j that exist, as Python slicing does
Slice(s, i, j) == IF Max(i, 1) > Min(j, Len(s)) THEN "" ELSE SubSeq(s, Max(i, 1), Min(j, Len(s)))

From(s, i) == Slice(s, i, Len(s))

IsDigit(c) == c \in {"0", "1", "2", "3", "4", "5", "6", "7", "8", "9"}

IsSpace(c) == c \in {" ", "\t", "\r", "\f"}

UpperAlphabet == "ABCDEFGHIJKLMNOPQRSTUVWXYZ"

LowerAlphabet == "abcdefghijklmnopqrstuvwxyz"

UpperChars == {SubSeq(UpperAlphabet, k, k) : k \in 1..26}

LowerChars == {SubSeq(LowerAlphabet, k, k) : k \in 1..26}

IsUpper(c) == c \in UpperChars

IsLower(c) == c \in LowerChars

\* str.lower and str.upper on one ASCII letter
LowerOf == [c \in UpperChars |->
               SubSeq(LowerAlphabet, CHOOSE k \in 1..26 : SubSeq(UpperAlphabet, k, k) = c,
                                     CHOOSE k \in 1..26 : SubSeq(UpperAlphabet, k, k) = c)]

UpperOf == [c \in LowerChars |->
               SubSeq(UpperAlphabet, CHOOSE k \in 1..26 : SubSeq(LowerAlphabet, k, k) = c,
                                     CHOOSE k \in 1..26 : SubSeq(LowerAlphabet, k, k) = c)]

LowerChar(c) == IF c \in UpperChars THEN LowerOf[c] ELSE c

UpperChar(c) == IF c \in LowerChars THEN UpperOf[c] ELSE c

RECURSIVE Lower(_)
Lower(s) == IF s = "" THEN "" ELSE LowerChar(CharAt(s, 1)) \o Lower(From(s, 2))

RECURSIVE Upper(_)
Upper(s) == IF s = "" THEN "" ELSE UpperChar(CharAt(s, 1)) \o Upper(From(s, 2))

StartsWithAt(s, i, sub) == Slice(s, i, i + Len(sub) - 1) = sub

StartsWith(s, sub) == StartsWithAt(s, 1, sub)

EndsWith(s, sub) == Len(s) >= Len(sub) /\ From(s, Len(s) - Len(sub) + 1) = sub

\* str.find from position i on, 1-based; 0 when sub does not occur
RECURSIVE FindFrom(_, _, _)
FindFrom(s, sub, i) ==
    IF i + Len(sub) - 1 > Len(s) THEN 0
    ELSE IF SubSeq(s, i, i + Len(sub) - 1) = sub THEN i
    ELSE FindFrom(s, sub, i + 1)

Find(s, sub) == FindFrom(s, sub, 1)

\* str.rfind at or before position i, 1-based; 0 when sub does not occur
RECURSIVE RFindFrom(_, _, _)
RFindFrom(s, sub, i) ==
    IF i < 1 THEN 0
    ELSE IF SubSeq(s, i, i + Len(sub) - 1) = sub THEN i
    ELSE RFindFrom(s, sub, i - 1)

RFind(s, sub) == RFindFrom(s, sub, Len(s) - Len(sub) + 1)

\* the Python test "sub in s"
Contains(s, sub) == Find(s, sub) > 0

RECURSIVE LStrip(_)
LStrip(s) == IF s # "" /\ IsSpace(CharAt(s, 1)) THEN LStrip(From(s, 2)) ELSE s

RECURSIVE RStrip(_)
RStrip(s) ==
    IF s # "" /\ IsSpace(CharAt(s, Len(s))) THEN RStrip(Slice(s, 1, Len(s) - 1)) ELSE s

Strip(s) == LStrip(RStrip(s))

\* str.replace(old, new) for a non-empty old: leftmost non-overlapping
\* occurrences; p is the position of the first one, 0 when there is none
RECURSIVE Replace(_, _, _)
ReplaceFrom(s, old, new, p) ==
    IF p = 0 THEN s
    ELSE Slice(s, 1, p - 1) \o new \o Replace(From(s, p + Len(old)), old, new)

Replace(s, old, new) == ReplaceFrom(s, old, new, FindFrom(s, old, 1))

\* the position of the first character at or after i that \s does not match
RECURSIVE SkipSpace(_, _)
SkipSpace(s, i) == IF IsSpace(CharAt(s, i)) THEN SkipSpace(s, i + 1) ELSE i

---------------------------------------------------------------------------
(* The two time patterns *)

\* \d{1,2}: anchored at position i: the position after the colon, 0 when
\* there is no match
HourEnd(s, i) ==
    IF IsDigit(CharAt(s, i)) /\ IsDigit(CharAt(s, i + 1)) /\ CharAt(s, i + 2) = ":" THEN i + 3
    ELSE IF IsDigit(CharAt(s, i)) /\ CharAt(s, i + 1) = ":" THEN i + 2
    ELSE 0

\* ET anchored at position k: the position of the T, 0 when there is no match
ZoneEnd(s, k) == IF Lower(Slice(s, k, k + 1)) = "et" THEN k + 1 ELSE 0

\* (?:AM|PM)?\s*ET anchored at position k
MeridiemEnd(s, k) ==
    IF Lower(Slice(s, k, k + 1)) \in {"am", "pm"} THEN ZoneEnd(s, SkipSpace(s, k + 2))
    ELSE ZoneEnd(s, k)

\* \d{2}\s*(?:AM|PM)?\s*ET anchored at position j, 0 standing for no hour
MinuteEnd(s, j) ==
    IF j = 0 \/ ~IsDigit(CharAt(s, j)) \/ ~IsDigit(CharAt(s, j + 1)) THEN 0
    ELSE MeridiemEnd(s, SkipSpace(s, j + 2))

\* \d{1,2}:\d{2}\s*(?:AM|PM)?\s*ET with re.IGNORECASE, anchored at position
\* i: the position of the last matched character, 0 when there is no match.
TimeTokenEnd(s, i) == MinuteEnd(s, HourEnd(s, i))

\* ,\s*\d{1,2}:\d{2}\s*(?:AM|PM)?\s*ET anchored at position i
TimeSuffixEnd(s, i) ==
    IF CharAt(s, i) = "," THEN TimeTokenEnd(s, SkipSpace(s, i + 1)) ELSE 0

\* re.sub(r',\s*\d{1,2}:\d{2}\s*(?:AM|PM)?\s*ET', '', s, flags=re.IGNORECASE)
RECURSIVE RemoveTimeSuffixes(_)
RemoveTimeSuffixes(s) ==
    IF s = "" THEN ""
    ELSE IF TimeSuffixEnd(s, 1) > 0 THEN RemoveTimeSuffixes(From(s, TimeSuffixEnd(s, 1) + 1))
    ELSE CharAt(s, 1) \o RemoveTimeSuffixes(From(s, 2))

---------------------------------------------------------------------------
(* update_line_with_time *)

\* f"{parts[0]}, {new_time} @{parts[1]}" for the split of line at position at
insert_before_venue(line, new_time, at) ==
    Slice(line, 1, at - 1) \o ", " \o new_time \o " @" \o From(line, at + 1)

\* insert_time splitting at the first "@" instead of the last
insert_time_first_at(line, new_time) ==
    IF Contains(line, "@") /\ ~EndsWith(RStrip(line), "@")
    THEN insert_before_venue(line, new_time, Find(line, "@"))
    ELSE line \o ", " \o new_time

\* the insertion of the time into the line without its old time
insert_time(line, new_time) ==
    IF Contains(line, "@") /\ ~EndsWith(RStrip(line), "@")
    THEN insert_before_venue(line, new_time, RFind(line, "@"))
    ELSE line \o ", " \o new_time

update_line_with_time(original_line, new_time) ==
    insert_time(RemoveTimeSuffixes(original_line), new_time)

---------------------------------------------------------------------------
(* parse_date and extract_game_info *)

MonthAbbr == <<"jan", "feb", "mar", "apr", "may", "jun",
               "jul", "aug", "sep", "oct", "nov", "dec">>

IsLeap(y) == (y % 4 = 0 /\ y % 100 # 0) \/ y % 400 = 0

DaysInMonth(y, m) ==
    IF m = 2 THEN (IF IsLeap(y) THEN 29 ELSE 28)
    ELSE IF m \in {4, 6, 9, 11} THEN 30 ELSE 31

DigitVal(c) == CHOOSE d \in 0..9 : CharAt("0123456789", d + 1) = c

RECURSIVE ToInt(_)
ToInt(s) == IF s = "" THEN 0 ELSE 10 * ToInt(Slice(s, 1, Len(s) - 1)) + DigitVal(CharAt(s, Len(s)))

\* \s+\d{4} after the comma at position c, the year beginning at position y
YearEnd(s, c, y) ==
    IF y > c + 1 /\ \A k \in 0..3 : IsDigit(CharAt(s, y + k)) THEN y + 3 ELSE 0

\* \d{1,2}, anchored at position d: the position of the comma, 0 when there
\* is no match
DayEnd(s, d) ==
    IF IsDigit(CharAt(s, d)) /\ IsDigit(CharAt(s, d + 1)) /\ CharAt(s, d + 2) = "," THEN d + 2
    ELSE IF IsDigit(CharAt(s, d)) /\ CharAt(s, d + 1) = "," THEN d + 1
    ELSE 0

\* ,\s+\d{4} for the comma at position c, 0 standing for no day
CommaEnd(s, c) == IF c > 0 THEN YearEnd(s, c, SkipSpace(s, c + 1)) ELSE 0

\* \s+\d{1,2},\s+\d{4} after the month at i..i+2, the day beginning at d
MonthEnd(s, i, d) == IF d > i + 3 THEN CommaEnd(s, DayEnd(s, d)) ELSE 0

\* [A-Z][a-z]{2}\s+\d{1,2},\s+\d{4} anchored at position i: the position of
\* the last matched character, 0 when there is no match.
DateTokenEnd(s, i) ==
    IF IsUpper(CharAt(s, i)) /\ IsLower(CharAt(s, i + 1)) /\ IsLower(CharAt(s, i + 2))
    THEN MonthEnd(s, i, SkipSpace(s, i + 3))
    ELSE 0

\* the index of the month abbreviation mon
MonthIndex(mon) == CHOOSE k \in 1..12 : MonthAbbr[k] = mon

\* the datetime at midnight of the fields strptime reads, None when they are
\* no date
strptime_fields(mon, day, year) ==
    IF /\ \E k \in 1..12 : MonthAbbr[k] = mon
       /\ day >= 1 /\ day <= 31
       /\ year >= 1
       /\ day <= DaysInMonth(year, MonthIndex(mon))
    THEN [year |-> year, month |-> MonthIndex(mon), day |-> day, hour |-> 0, minute |-> 0]
    ELSE None

\* strptime on s with the day at d..c-1
strptime_day(s, d, c) ==
    strptime_fields(Lower(Slice(s, 1, 3)), ToInt(Slice(s, d, c - 1)), ToInt(From(s, Len(s) - 3)))

\* strptime on s with the day beginning at d
strptime_from(s, d) == strptime_day(s, d, IF CharAt(s, d + 1) = "," THEN d + 1 ELSE d + 2)

\* strptime on s, the month being s[1..3]
strptime_stripped(s) == strptime_from(s, SkipSpace(s, 4))

\* datetime.strptime(date_str.strip(), '%b %d, %Y') on a string that matched
\* the date pattern; the two other formats of parse_date accept no string
\* that begins with a letter and holds a comma.  The result is a datetime
\* [year, month, day, hour, minute] at midnight.
parse_date(date_str) == strptime_stripped(Strip(date_str))

\* the position of the first of the stops, past the end when there is none
FirstStop(line, stops) == IF stops = {} THEN Len(line) + 1 ELSE SetMin(stops)

\* the lazy group [^@]+? that begins at g and ends before the first '@' or ','
\* after g, or at the end of the line
GroupFrom(line, g) ==
    Slice(line, g, FirstStop(line, {e \in (g + 1)..Len(line) : CharAt(line, e) \in {"@", ","}}) - 1)

RECURSIVE OpponentGroup(_, _, _)

\* the match tried at position i, the whitespace after the marker being
\* ws..g-1
OpponentAt(line, marker, i, ws, g) ==
    IF ~StartsWithAt(line, i, marker) \/ g = ws THEN OpponentGroup(line, marker, i + 1)
    ELSE IF g <= Len(line) /\ CharAt(line, g) # "@" THEN <<GroupFrom(line, g)>>
    ELSE IF g - ws >= 2 THEN <<CharAt(line, g - 1)>>
    ELSE OpponentGroup(line, marker, i + 1)

\* re.search(r'<marker>\s+([^@]+?)(?:@|,|$)', line).group(1) for the marker
\* 'vs' or '@', tried from position i on: None when there is no match.
OpponentGroup(line, marker, i) ==
    IF i > Len(line) THEN None
    ELSE OpponentAt(line, marker, i, i + Len(marker), SkipSpace(line, i + Len(marker)))

\* the time token that begins at position i
TimeTokenAt(line, i) == <<Slice(line, i, TimeTokenEnd(line, i))>>

\* the leftmost of the time tokens that begin at the positions starts
FirstTimeIn(line, starts) == IF starts = {} THEN None ELSE TimeTokenAt(line, SetMin(starts))

\* re.search(r'(\d{1,2}:\d{2}\s*(?:AM|PM)?\s*ET)', line, re.IGNORECASE)
FirstTimeToken(line) == FirstTimeIn(line, {i \in 1..Len(line) : TimeTokenEnd(line, i) > 0})

\* the Game of a line whose opponent pattern matched or not
extract_opponent(line, league, date, is_home, opp_match) ==
    IF opp_match = None THEN None
    ELSE [original_line |-> line,
          date |-> date,
          opponent |-> Strip(opp_match[1]),
          is_home |-> is_home,
          league |-> league,
          existing_time |-> FirstTimeToken(line)]

\* extract_side without the test that one marker is detected
extract_side_no_marker_test(line, league, date, is_home, is_away) ==
    IF date = None THEN None
    ELSE extract_opponent(line, league, date, is_home,
                          IF is_home THEN OpponentGroup(line, "vs", 1)
                          ELSE OpponentGroup(line, "@", 1))

\* the part of extract_game_info below the home/away detection
extract_side(line, league, date, is_home, is_away) ==
    IF date = None THEN None
    ELSE IF ~(is_home \/ is_away) THEN None
    ELSE extract_opponent(line, league, date, is_home,
                          IF is_home THEN OpponentGroup(line, "vs", 1)
                          ELSE OpponentGroup(line, "@", 1))

\* the part of extract_game_info below the date search, the date pattern
\* matching first at position di
extract_date(line, league, di) ==
    extract_side(line, league, parse_date(Slice(line, di, DateTokenEnd(line, di))),
                 Contains(line, "vs ") \/ Contains(line, " vs "),
                 Contains(line, "@ ") /\ ~StartsWith(Strip(line), "@"))

\* the date search, the date pattern matching at the positions starts
extract_dated(line, league, starts) ==
    IF starts = {} THEN None ELSE extract_date(line, league, SetMin(starts))

\* extract_game_info below line = line.strip()
extract_stripped(line, league) ==
    IF line = "" \/ StartsWith(line, "#") \/ Contains(line, "(W ") \/ Contains(line, "(L ")
    THEN None
    ELSE extract_dated(line, league, {i \in 1..Len(line) : DateTokenEnd(line, i) > 0})

extract_game_info(raw, league) == extract_stripped(Strip(raw), league)

---------------------------------------------------------------------------
(* normalize_team_name, fuzz.ratio, fuzz.partial_ratio, fuzzy_match_teams *)

\* normalize_team_name without the final lower()
normalize_team_name_keeping_case(name) ==
    Strip(
        Replace(Replace(
            Replace(Replace(
                Replace(Replace(Replace(
                    Replace(Replace(Replace(name, " Basket", ""), " Basketball", ""),
                            " Beko", ""),
                    " FOX", ""), " SAD", ""), " Basket", ""),
                " AX Armani Exchange", " Armani"), " AX", ""),
            " KK ", ""), " CB ", ""))

normalize_team_name(name) ==
    Lower(Strip(
        Replace(Replace(
            Replace(Replace(
                Replace(Replace(Replace(
                    Replace(Replace(Replace(name, " Basket", ""), " Basketball", ""),
                            " Beko", ""),
                    " FOX", ""), " SAD", ""), " Basket", ""),
                " AX Armani Exchange", " Armani"), " AX", ""),
            " KK ", ""), " CB ", "")))

\* the characters of s as a tuple
RECURSIVE CharsOf(_, _)
CharsOf(s, k) == IF k > Len(s) THEN <<>> ELSE <<SubSeq(s, k, k)>> \o CharsOf(s, k + 1)

\* the length of the longest common prefix of a[i..ahi] and b[j..bhi]
RECURSIVE CommonLen(_, _, _, _, _, _)
CommonLen(a, b, i, j, ahi, bhi) ==
    IF i <= ahi /\ j <= bhi /\ a[i] = b[j]
    THEN 1 + CommonLen(a, b, i + 1, j + 1, ahi, bhi)
    ELSE 0

\* the pairs <<i, j>> of a[alo..ahi] and b[blo..bhi] where a common run begins
run_starts(a, b, alo, ahi, blo, bhi) ==
    {p \in (alo..ahi) \X (blo..bhi) :
        /\ a[p[1]] = b[p[2]]
        /\ (p[1] = alo \/ p[2] = blo \/ a[p[1] - 1] # b[p[2] - 1])}

\* the run of length k that begins first in b among those that begin at i in a
first_in_b(runs, i, k) == <<i, SetMin({c[2] : c \in {d \in runs : d[1] = i}}), k>>

\* the run that begins first in a, then first in b, among runs of length k
first_in_a(runs, k) == first_in_b(runs, SetMin({c[1] : c \in runs}), k)

\* the first of the runs of length k
first_of_length(runs, k) == first_in_a({d \in runs : d[3] = k}, k)

\* the first of the longest runs, <<alo, blo, 0>> when there is no run
longest_run(runs, alo, blo) ==
    IF runs = {} THEN <<alo, blo, 0>>
    ELSE first_of_length(runs, SetMax({c[3] : c \in runs}))

\* difflib SequenceMatcher.find_longest_match(alo, ahi, blo, bhi) on the
\* character tuples a and b, ranges inclusive (no junk below 200 characters):
\* <<i, j, k>> with a[i..i+k-1] = b[j..j+k-1], k the largest possible, then i
\* the smallest, then j the smallest.  Only the pairs where a common run
\* begins are measured.
find_longest_match(a, b, alo, ahi, blo, bhi) ==
    longest_run({<<p[1], p[2], CommonLen(a, b, p[1], p[2], ahi, bhi)>> :
                    p \in run_starts(a, b, alo, ahi, blo, bhi)},
                alo, blo)

RECURSIVE get_matching_blocks(_, _, _, _, _, _)

\* the blocks of a[alo..ahi] and b[blo..bhi] around their longest match m
blocks_around(a, b, alo, ahi, blo, bhi, m) ==
    IF m[3] = 0 THEN {}
    ELSE {m} \cup get_matching_blocks(a, b, alo, m[1] - 1, blo, m[2] - 1)
             \cup get_matching_blocks(a, b, m[1] + m[3], ahi, m[2] + m[3], bhi)

\* SequenceMatcher.get_matching_blocks without the closing (la, lb, 0) block:
\* the set of the blocks <<i, j, k>> found in a[alo..ahi] and b[blo..bhi]
get_matching_blocks(a, b, alo, ahi, blo, bhi) ==
    IF alo > ahi \/ blo > bhi THEN {}
    ELSE blocks_around(a, b, alo, ahi, blo, bhi,
                       find_longest_match(a, b, alo, ahi, blo, bhi))

MatchingBlocks(s1, s2) ==
    get_matching_blocks(CharsOf(s1, 1), CharsOf(s2, 1), 1, Len(s1), 1, Len(s2))

RECURSIVE SumSizes(_)

\* the sizes of the blocks, x counted first
SumFrom(blocks, x) == x[3] + SumSizes(blocks \ {x})

SumSizes(blocks) == IF blocks = {} THEN 0 ELSE SumFrom(blocks, CHOOSE y \in blocks : TRUE)

\* the quotient q with remainder r of a division by den, rounded as Python
\* rounds: a half goes to the even neighbour
round_half_even(q, r, den) ==
    IF 2 * r < den THEN q
    ELSE IF 2 * r > den THEN q + 1
    ELSE IF q % 2 = 0 THEN q ELSE q + 1

\* int(round(100 * num / den)) for 100 * SequenceMatcher.ratio() = 200 * M / T
intr(num, den) == round_half_even(num \div den, num % den, den)

\* utils.intr(100 * SequenceMatcher(None, s1, s2).ratio())
SequenceRatio(s1, s2) ==
    IF Len(s1) + Len(s2) = 0 THEN 100
    ELSE intr(200 * SumSizes(MatchingBlocks(s1, s2)), Len(s1) + Len(s2))

\* fuzz.ratio
ratio(s1, s2) ==
    IF s1 = s2 THEN 100
    ELSE IF Len(s1) = 0 \/ Len(s2) = 0 THEN 0
    ELSE SequenceRatio(s1, s2)

\* the starts in the longer string of the windows the blocks line up
long_starts(blocks) ==
    {IF blk[2] - blk[1] > 0 THEN blk[2] - blk[1] ELSE 0 : blk \in blocks}

\* the ratios of the shorter string against the windows of the longer one
window_scores(shorter, longer, starts) ==
    {SequenceRatio(shorter, Slice(longer, ls + 1, ls + Len(shorter))) : ls \in starts}

\* partial_ratio of a string and one that is not shorter
partial_ratio_ordered(shorter, longer) ==
    SetMax(window_scores(shorter, longer,
                         long_starts(MatchingBlocks(shorter, longer)
                                        \cup {<<Len(shorter) + 1, Len(longer) + 1, 0>>})))

\* fuzz.partial_ratio: the best ratio of the shorter string against the
\* windows of the longer one that the matching blocks line up
partial_ratio(s1, s2) ==
    IF s1 = s2 THEN 100
    ELSE IF Len(s1) = 0 \/ Len(s2) = 0 THEN 0
    ELSE IF Len(s1) <= Len(s2) THEN partial_ratio_ordered(s1, s2)
    ELSE partial_ratio_ordered(s2, s1)

MatchThreshold == 80

PartialThreshold == 85

\* fuzzy_match_teams below the two normalisations
fuzzy_match_normalized(norm1, norm2) ==
    IF norm1 = norm2 THEN TRUE
    ELSE ratio(norm1, norm2) >= MatchThreshold
            \/ partial_ratio(norm1, norm2) >= PartialThreshold

fuzzy_match_teams(name1, name2) ==
    fuzzy_match_normalized(normalize_team_name(name1), normalize_team_name(name2))

---------------------------------------------------------------------------
(* convert_to_et and format_time_et *)
(* A datetime is [year, month, day, hour, minute]; an instant is counted in *)
(* minutes from 1970-01-01 00:00 UTC.                                       *)

\* days from 1970-01-01 to day-of-year doy of year-of-era yoe of a 400-year era
DaysFromEra(era, yoe, doy) ==
    era * 146097 + (yoe * 365 + yoe \div 4 - yoe \div 100 + doy) - 719468

\* the same for a year yy that begins on March 1
DaysFromMarchYear(yy, m, d) ==
    DaysFromEra(yy \div 400, yy % 400,
                (153 * (IF m > 2 THEN m - 3 ELSE m + 9) + 2) \div 5 + d - 1)

\* days from 1970-01-01 to the civil date y-m-d (proleptic Gregorian)
DaysFromCivil(y, m, d) == DaysFromMarchYear(IF m <= 2 THEN y - 1 ELSE y, m, d)

CivilOfMonth(y0, m, d) == <<y0 + (IF m <= 2 THEN 1 ELSE 0), m, d>>

CivilFromMp(y0, doy, mp) ==
    CivilOfMonth(y0, IF mp < 10 THEN mp + 3 ELSE mp - 9, doy - (153 * mp + 2) \div 5 + 1)

CivilFromDoy(y0, doy) == CivilFromMp(y0, doy, (5 * doy + 2) \div 153)

CivilFromYoe(era, doe, yoe) ==
    CivilFromDoy(yoe + era * 400, doe - (365 * yoe + yoe \div 4 - yoe \div 100))

CivilFromDoe(era, doe) ==
    CivilFromYoe(era, doe,
                 (doe - doe \div 1460 + doe \div 36524 - doe \div 146096) \div 365)

\* the civil date <<y, m, d>> of a day count
CivilFromDays(days) == CivilFromDoe((days + 719468) \div 146097, (days + 719468) % 146097)

\* 0 = Sunday .. 6 = Saturday
Weekday(y, m, d) == (DaysFromCivil(y, m, d) + 4) % 7

\* the day of month of the n-th Sunday of month m
NthSunday(y, m, n) == 1 + ((7 - Weekday(y, m, 1)) % 7) + 7 * (n - 1)

LastSunday(y, m) ==
    CHOOSE d \in (DaysInMonth(y, m) - 6)..DaysInMonth(y, m) : Weekday(y, m, d) = 0

WallMinutes(y, m, d, h, mi) == (DaysFromCivil(y, m, d) * 24 + h) * 60 + mi

EuropeZones == {"Europe/Paris", "Europe/Madrid"}

\* start <= w < end
Within(w, start, end) == start <= w /\ w < end

\* the UTC offset, in minutes, that ZoneInfo('Europe/Paris') or
\* ZoneInfo('Europe/Madrid') gives a naive wall time (fold = 0): summer time
\* from 03:00 on the last Sunday of March up to 03:00 on the last Sunday of
\* October; a wall time in the gap keeps the winter offset, a repeated wall
\* time the summer one
EuropeOffset(dt) ==
    IF Within(WallMinutes(dt.year, dt.month, dt.day, dt.hour, dt.minute),
              WallMinutes(dt.year, 3, LastSunday(dt.year, 3), 3, 0),
              WallMinutes(dt.year, 10, LastSunday(dt.year, 10), 3, 0))
    THEN 120 ELSE 60

\* the offset of America/New_York at a UTC instant of the UTC year y
EasternOffsetIn(y, utc) ==
    IF Within(utc, WallMinutes(y, 3, NthSunday(y, 3, 2), 7, 0),
              WallMinutes(y, 11, NthSunday(y, 11, 1), 6, 0))
    THEN -240 ELSE -300

\* America/New_York read as standard time the whole year
EasternOffset_standard_time(utc) == -300

\* the UTC offset of America/New_York at a UTC instant: daylight time from
\* 02:00 EST on the second Sunday of March to 02:00 EDT on the first Sunday
\* of November
EasternOffset(utc) == EasternOffsetIn(CivilFromDays(utc \div 1440)[1], utc)

\* local_tz.localize(local_time) as a UTC instant
LocalizedUTC(local_time) ==
    WallMinutes(local_time.year, local_time.month, local_time.day,
                local_time.hour, local_time.minute) - EuropeOffset(local_time)

\* the datetime of a civil date and a minute of the day
DateTimeOf(date, minute_of_day) ==
    [year |-> date[1], month |-> date[2], day |-> date[3],
     hour |-> minute_of_day \div 60, minute |-> minute_of_day % 60]

\* the wall time whose minute count is et
WallTimeOf(et) == DateTimeOf(CivilFromDays(et \div 1440), et % 1440)

\* astimezone(ET) of a UTC instant
EasternTime(utc) == WallTimeOf(utc + EasternOffset(utc))

convert_to_et(local_time, local_tz) == EasternTime(LocalizedUTC(local_time))

Digit(d) == CharAt("0123456789", d + 1)

TwoDigits(n) == Digit(n \div 10) \o Digit(n % 10)

\* time_str[1:] if time_str.startswith('0') else time_str
strip_leading_zero(time_str) ==
    IF StartsWith(time_str, "0") THEN From(time_str, 2) ELSE time_str

\* dt.strftime('%I:%M %p ET') with the leading zero of the hour removed
format_time_et(dt) ==
    strip_leading_zero(TwoDigits(IF dt.hour % 12 = 0 THEN 12 ELSE dt.hour % 12) \o ":"
                       \o TwoDigits(dt.minute) \o " "
                       \o (IF dt.hour < 12 THEN "AM" ELSE "PM") \o " ET")

---------------------------------------------------------------------------
(* match_game *)

\* datetime.date()
DateOf(dt) == <<dt.year, dt.month, dt.day>>

AcceptScore == 75

\* match_scored replacing the best candidate on an equal score
match_scored_last_wins(game, official, k, best, score) ==
    IF fuzzy_match_teams(game.opponent, official.opponent) /\ score >= best.best_score
    THEN [best_match |-> k, best_score |-> score]
    ELSE best

\* the name test and the comparison with the best score so far
match_scored(game, official, k, best, score) ==
    IF fuzzy_match_teams(game.opponent, official.opponent) /\ score > best.best_score
    THEN [best_match |-> k, best_score |-> score]
    ELSE best

\* match_official without the home/away test
match_official_any_side(game, official, k, best) ==
    IF DateOf(game.date) # DateOf(official.date) THEN best
    ELSE IF game.league # official.league THEN best
    ELSE match_scored(game, official, k, best,
                      ratio(normalize_team_name(game.opponent),
                            normalize_team_name(official.opponent)))

\* the body of the for loop of match_game for the candidate official
match_official(game, official, k, best) ==
    IF DateOf(game.date) # DateOf(official.date) THEN best
    ELSE IF game.league # official.league THEN best
    ELSE IF game.is_home # official.is_home THEN best
    ELSE match_scored(game, official, k, best,
                      ratio(normalize_team_name(game.opponent),
                            normalize_team_name(official.opponent)))

\* one iteration of the for loop of match_game over official_games[k]
match_iteration(game, official_games_, k, best) ==
    match_official(game, official_games_[k], k, best)

\* the loop state after the first n candidates
RECURSIVE match_loop(_, _, _)
match_loop(game, official_games_, n) ==
    IF n = 0 THEN [best_match |-> 0, best_score |-> 0]
    ELSE match_iteration(game, official_games_, n, match_loop(game, official_games_, n - 1))

\* match_return rejecting a score equal to the floor
match_return_strict(best) == IF best.best_score > AcceptScore THEN best.best_match ELSE 0

\* the return statement of match_game: the index of the candidate, 0 for None
match_return(best) == IF best.best_score >= AcceptScore THEN best.best_match ELSE 0

\* the candidate at index k of the pool, None for index 0
candidate_at(official_games_, k) == IF k = 0 THEN None ELSE official_games_[k]

\* match_game: None or the matched OfficialGame
match_game(game, official_games_) ==
    candidate_at(official_games_,
                 match_return(match_loop(game, official_games_, Len(official_games_))))

---------------------------------------------------------------------------
(* The states in which a component is not running *)

RwIdle == rw_line = "" /\ rw_time = "" /\ rw_out = <<>>

MatchIdle ==
    /\ m_game = None /\ m_pool = <<>> /\ m_i = 0 /\ best_match = 0 /\ best_score = 0
    /\ m_pc = "idle" /\ m_results = <<>>

FileIdle ==
    /\ config = None /\ file_text = "" /\ log_text = None /\ official_games = <<>>
    /\ lines = <<>> /\ line_i = 0 /\ current_league = None /\ updated_lines = <<>>
    /\ unmatched_games = <<>> /\ updated_count = 0 /\ skipped_count = 0
    /\ pc = "idle" /\ result = None /\ run_no = 0

MainIdle ==
    /\ schedule_files = <<>> /\ file_i = 0 /\ total_updated = 0 /\ total_skipped = 0
    /\ printed = <<>> /\ main_pc = "idle"

PureIdle ==
    /\ p_line = "" /\ p_league = None /\ p_game = None /\ p_pc = "idle"
    /\ n_name = "" /\ n_out = <<>>
    /\ c_local = None /\ c_tz = "" /\ c_out = None

---------------------------------------------------------------------------
(* update_line_with_time applied MaxApply times to a line *)

MaxApply == 3

LineHeads == {"Nov 13, 2025 - vs Valencia Basket", "Oct 1, 2025 - @ Paris", "Nov 3, 2025 - Lyon"}

LineVenues == {"", " @ Astroballe", " @", " @ \t"}

LineTimes == {"", ", 2:00 PM ET", ",7:30 pm et", " 2:00 PM ET", ", 20:45 ET"}

RwTimes == {"2:45 PM ET", "2:00 PM ET", "12:05 AM ET"}

\* the time written after the venue (as typed by hand), before it (as
\* update_line_with_time leaves it), or in both places
RwLines ==
    {h \o v \o t : h \in LineHeads, v \in LineVenues, t \in LineTimes}
        \cup {h \o " " \o t \o v : h \in LineHeads, v \in LineVenues, t \in LineTimes}
        \cup {h \o t \o " @ Astroballe" \o t : h \in LineHeads, t \in LineTimes}

RwInit ==
    /\ rw_line \in RwLines
    /\ rw_time \in RwTimes
    /\ rw_out = <<>>
    /\ MatchIdle /\ FileIdle /\ MainIdle /\ PureIdle

RwCurrent == IF rw_out = <<>> THEN rw_line ELSE rw_out[Len(rw_out)]

Rewrite ==
    /\ Len(rw_out) < MaxApply
    /\ rw_out' = Append(rw_out, update_line_with_time(RwCurrent, rw_time))
    /\ UNCHANGED <<rw_line, rw_time, matchVars, fileVars, mainVars, pureVars>>

RwNext == Rewrite

SpecRewrite == RwInit /\ [][RwNext]_vars

---------------------------------------------------------------------------
(* One call of match_game, iteration by iteration, then the same call again *)

MaxPool == 3

MaxCalls == 2

Kickoff(y, mo, d, h, mi) == [year |-> y, month |-> mo, day |-> d, hour |-> h, minute |-> mi]

OfficialGame(date, opponent, is_home, local_time, league) ==
    [date |-> date, opponent |-> opponent, is_home |-> is_home,
     local_time |-> local_time, league |-> league]

\* the records the fetch layer may deliver for the entry below: the same
\* game from two sources (score 100 twice), spellings that score 75 and 74
\* and pass the name test, a spelling that scores 75 and fails it, and the
\* game on another day, in another league, on the other side
MatchCandidates ==
    <<OfficialGame(Kickoff(2025, 11, 13, 0, 0), "Baxi Manresa", TRUE,
                   Kickoff(2025, 11, 13, 20, 45), "EuroLeague"),
      OfficialGame(Kickoff(2025, 11, 13, 20, 30), "Baxi Manresa Basket", TRUE,
                   Kickoff(2025, 11, 13, 20, 30), "EuroLeague"),
      OfficialGame(Kickoff(2025, 11, 13, 0, 0), "Baxi Manresa Basquet", TRUE,
                   Kickoff(2025, 11, 13, 19, 0), "EuroLeague"),
      OfficialGame(Kickoff(2025, 11, 13, 0, 0), "Manresa", TRUE,
                   Kickoff(2025, 11, 13, 18, 0), "EuroLeague"),
      OfficialGame(Kickoff(2025, 11, 13, 0, 0), "Baxi Manlleu", TRUE,
                   Kickoff(2025, 11, 13, 16, 0), "EuroLeague"),
      OfficialGame(Kickoff(2025, 11, 14, 0, 0), "Baxi Manresa", TRUE,
                   Kickoff(2025, 11, 14, 20, 45), "EuroLeague"),
      OfficialGame(Kickoff(2025, 11, 13, 0, 0), "Baxi Manresa", TRUE,
                   Kickoff(2025, 11, 13, 17, 0), "LNB Pro A"),
      OfficialGame(Kickoff(2025, 11, 13, 0, 0), "Baxi Manresa", FALSE,
                   Kickoff(2025, 11, 13, 21, 0), "EuroLeague")>>

MatchEntries ==
    {extract_game_info("Nov 13, 2025 - vs Baxi Manresa @ Astroballe", "EuroLeague")}

\* the elements of seq at the indices of S, in order
RECURSIVE Pick(_, _, _)
Pick(seq, S, k) ==
    IF k > Len(seq) THEN <<>>
    ELSE (IF k \in S THEN <<seq[k]>> ELSE <<>>) \o Pick(seq, S, k + 1)

Reverse(seq) == [k \in 1..Len(seq) |-> seq[Len(seq) + 1 - k]]

\* the subsets of 1..n of at most max elements
SmallSubsets(n, max) == {S \in SUBSET (1..n) : Cardinality(S) <= max}

\* the pools: at most MaxPool of the candidates, in the order above or in the
\* opposite order
MatchPools ==
    UNION {{Pick(MatchCandidates, S, 1), Reverse(Pick(MatchCandidates, S, 1))} :
           S \in SmallSubsets(Len(MatchCandidates), MaxPool)}

MatchInit ==
    /\ m_game \in MatchEntries
    /\ m_pool \in MatchPools
    /\ m_i = 0
    /\ best_match = 0
    /\ best_score = 0
    /\ m_pc = "loop"
    /\ m_results = <<>>
    /\ RwIdle /\ FileIdle /\ MainIdle /\ PureIdle

\* the body of the for loop for the next candidate
MatchIterate ==
    /\ m_pc = "loop"
    /\ m_i < Len(m_pool)
    /\ \E best \in {match_iteration(m_game, m_pool, m_i + 1,
                                    [best_match |-> best_match, best_score |-> best_score])} :
           /\ best_match' = best.best_match
           /\ best_score' = best.best_score
    /\ m_i' = m_i + 1
    /\ UNCHANGED <<m_game, m_pool, m_pc, m_results,
                   rwVars, fileVars, mainVars, pureVars>>

\* the return statement
MatchReturn ==
    /\ m_pc = "loop"
    /\ m_i = Len(m_pool)
    /\ m_results' = Append(m_results,
           match_return([best_match |-> best_match, best_score |-> best_score]))
    /\ m_pc' = "returned"
    /\ UNCHANGED <<m_game, m_pool, m_i, best_match, best_score,
                   rwVars, fileVars, mainVars, pureVars>>

\* the caller calls match_game again with the same entry and pool
MatchAgain ==
    /\ m_pc = "returned"
    /\ Len(m_results) < MaxCalls
    /\ m_i' = 0
    /\ best_match' = 0
    /\ best_score' = 0
    /\ m_pc' = "loop"
    /\ UNCHANGED <<m_game, m_pool, m_results, rwVars, fileVars, mainVars, pureVars>>

MatchNext == MatchIterate \/ MatchReturn \/ MatchAgain

SpecMatch == MatchInit /\ [][MatchNext]_vars

---------------------------------------------------------------------------
(* process_schedule_file *)

\* TEAM_CONFIG['adam_atamna_schedule.txt'], the fields the line scan reads
AsvelConfig ==
    [team_name |-> "ASVEL", timezone |-> "Europe/Paris",
     leagues |-> <<"EuroLeague", "LNB Pro A">>]

RECURSIVE SplitLines(_)

\* the split of text whose first line break is at position p, 0 for none
SplitAt(text, p) ==
    IF p = 0 THEN <<text>>
    ELSE <<Slice(text, 1, p - 1)>> \o SplitLines(From(text, p + 1))

\* text.split('\n')
SplitLines(text) == SplitAt(text, Find(text, "\n"))

\* '\n'.join(seq)
RECURSIVE JoinLines(_)
JoinLines(seq) ==
    IF seq = <<>> THEN ""
    ELSE IF Len(seq) = 1 THEN seq[1]
    ELSE seq[1] \o "\n" \o JoinLines(Tail(seq))

\* the first league of the configured list, from index k on, whose upper-cased
\* name the upper-cased line holds: None or <<league>>
RECURSIVE first_league_upper(_, _, _)
first_league_upper(upper_line, leagues, k) ==
    IF k > Len(leagues) THEN None
    ELSE IF Contains(upper_line, Upper(leagues[k])) THEN <<leagues[k]>>
    ELSE first_league_upper(upper_line, leagues, k + 1)

\* the first configured league the line names without regard to case
first_league_in(line, leagues, k) == first_league_upper(Upper(line), leagues, k)

\* the league a line names, else the league in force
league_or(found, league) == IF found # None THEN found ELSE league

\* detect_league forgetting the league on a line that names none
detect_league_no_carry(line, cfg, league) == first_league_in(line, cfg.leagues, 1)

\* the section-header detection at the top of the loop body
detect_league(line, cfg, league) == league_or(first_league_in(line, cfg.leagues, 1), league)

\* is_skip_line without the team-name test
is_skip_line_no_team(line, cfg) ==
    \/ Strip(line) = ""
    \/ Contains(line, "(W ")
    \/ Contains(line, "(L ")

\* the skip test of the loop body
is_skip_line(line, cfg) ==
    \/ Strip(line) = ""
    \/ Contains(line, cfg.team_name) /\ (Contains(line, "Rank:") \/ Contains(line, "Source:"))
    \/ Contains(line, "(W ")
    \/ Contains(line, "(L ")

\* the locals of the line scan
ScanState(league, out, unmatched, updated, skipped) ==
    [current_league |-> league, updated_lines |-> out, unmatched_games |-> unmatched,
     updated_count |-> updated, skipped_count |-> skipped]

\* updated_lines.append(text), with the league the line left in force
scan_emit(st, league, text) ==
    [st EXCEPT !.current_league = league, !.updated_lines = Append(st.updated_lines, text)]

\* scan_matched counting the line as skipped too
scan_matched_counting_skipped(cfg, line, st, league, match) ==
    [scan_emit(st, league,
               update_line_with_time(line,
                   format_time_et(convert_to_et(match.local_time, cfg.timezone))))
        EXCEPT !.updated_count = st.updated_count + 1,
               !.skipped_count = st.skipped_count + 1]

\* the branch of a matched entry
scan_matched(cfg, line, st, league, match) ==
    [scan_emit(st, league,
               update_line_with_time(line,
                   format_time_et(convert_to_et(match.local_time, cfg.timezone))))
        EXCEPT !.updated_count = st.updated_count + 1]

\* scan_unmatched without the append of the line
scan_unmatched_dropping_line(line, st, league, game) ==
    [st EXCEPT !.current_league = league,
               !.skipped_count = st.skipped_count + 1,
               !.unmatched_games = Append(st.unmatched_games, game)]

\* the branch of an entry without a match
scan_unmatched(line, st, league, game) ==
    [scan_emit(st, league, line)
        EXCEPT !.skipped_count = st.skipped_count + 1,
               !.unmatched_games = Append(st.unmatched_games, game)]

\* if match: ... else: ...
scan_match(cfg, line, st, league, game, match) ==
    IF match # None THEN scan_matched(cfg, line, st, league, match)
    ELSE scan_unmatched(line, st, league, game)

\* if game: ... else: ...
scan_game(cfg, pool, line, st, league, game) ==
    IF game # None THEN scan_match(cfg, line, st, league, game, match_game(game, pool))
    ELSE scan_emit(st, league, line)

\* the loop body below the league detection
scan_league(cfg, pool, line, st, league) ==
    IF is_skip_line(line, cfg) THEN scan_emit(st, league, line)
    ELSE IF league # None
    THEN scan_game(cfg, pool, line, st, league, extract_game_info(line, league[1]))
    ELSE scan_emit(st, league, line)

\* the body of the for loop over the lines, for one line
scan_line(cfg, pool, line, st) ==
    scan_league(cfg, pool, line, st, detect_league(line, cfg, st.current_league))

MonthName == <<"Jan", "Feb", "Mar", "Apr", "May", "Jun",
               "Jul", "Aug", "Sep", "Oct", "Nov", "Dec">>

\* game.date.strftime('%b %d, %Y')
strftime_date(dt) ==
    MonthName[dt.month] \o " " \o TwoDigits(dt.day) \o ", "
        \o TwoDigits(dt.year \div 100) \o TwoDigits(dt.year % 100)

RECURSIVE Repeat(_, _)
Repeat(c, n) == IF n = 0 THEN "" ELSE c \o Repeat(c, n - 1)

\* one line of the unmatched log
log_line(game) ==
    strftime_date(game.date) \o " - " \o (IF game.is_home THEN "vs" ELSE "@") \o " "
        \o game.opponent \o "\n"

RECURSIVE log_lines(_)
log_lines(games) == IF games = <<>> THEN "" ELSE log_line(Head(games)) \o log_lines(Tail(games))

\* the content written to <stem>_unmatched.log
unmatched_log(cfg, games) ==
    "Unmatched games for " \o cfg.team_name \o "\n" \o Repeat("=", 60) \o "\n\n"
        \o log_lines(games)

---------------------------------------------------------------------------
(* One run of process_schedule_file over a file and a fetched pool *)

MaxLines == 3

MaxFilePool == 2

\* the lines a schedule file is made of: section headers, a team line that
\* also reads as a game, future games with and without venue and time, a
\* game line that names a league, a completed game, a blank line, a commented-out game
FileLines ==
    <<"EuroLeague",
      "ASVEL Rank: 3, next Nov 13, 2025 - vs Monaco",
      "Oct 1, 2025 - @ Paris, 2:00 PM ET",
      "  # lnb pro a",
      "Nov 13, 2025 - vs Monaco Basket @ Astroballe",
      "Nov 20, 2025 - vs Monaco @ EuroLeague Arena",
      "Nov 13, 2025 - vs Monaco (W 88-75)",
      " ",
      "# Nov 13, 2025 - vs Monaco">>

\* the records the fetch layer may deliver
FileCandidates ==
    <<OfficialGame(Kickoff(2025, 11, 13, 0, 0), "AS Monaco", TRUE,
                   Kickoff(2025, 11, 13, 20, 45), "EuroLeague"),
      OfficialGame(Kickoff(2025, 11, 20, 0, 0), "Monaco", TRUE,
                   Kickoff(2025, 11, 20, 21, 0), "EuroLeague"),
      OfficialGame(Kickoff(2025, 11, 13, 0, 0), "Monaco", TRUE,
                   Kickoff(2025, 11, 13, 18, 30), "LNB Pro A"),
      OfficialGame(Kickoff(2025, 10, 1, 0, 0), "Paris Basketball", FALSE,
                   Kickoff(2025, 10, 1, 20, 30), "EuroLeague")>>

\* the files: at most MaxLines of the lines above, in that order
FileTexts ==
    {JoinLines(Pick(FileLines, S, 1)) : S \in SmallSubsets(Len(FileLines), MaxLines)}

\* the pools: at most MaxFilePool of the candidates
FilePools ==
    {Pick(FileCandidates, S, 1) : S \in SmallSubsets(Len(FileCandidates), MaxFilePool)}

FileInit ==
    /\ config = AsvelConfig
    /\ file_text \in FileTexts
    /\ log_text = None
    /\ official_games \in FilePools
    /\ lines = <<>>
    /\ line_i = 0
    /\ current_league = None
    /\ updated_lines = <<>>
    /\ unmatched_games = <<>>
    /\ updated_count = 0
    /\ skipped_count = 0
    /\ pc = "start"
    /\ result = None
    /\ run_no = 0
    /\ RwIdle /\ MatchIdle /\ MainIdle /\ PureIdle

\* Begin without the return on an empty pool
Begin_without_early_return ==
    /\ pc = "start"
    /\ lines' = SplitLines(file_text)
    /\ pc' = "scan"
    /\ UNCHANGED <<config, file_text, log_text, official_games, line_i, current_league,
                   updated_lines, unmatched_games, updated_count, skipped_count, result,
                   run_no, rwVars, matchVars, mainVars, pureVars>>

\* the file is read and the pool fetched; an empty pool ends the run
Begin ==
    /\ pc = "start"
    /\ lines' = SplitLines(file_text)
    /\ IF official_games = <<>>
       THEN pc' = "done" /\ result' = <<0, 0>>
       ELSE pc' = "scan" /\ result' = result
    /\ UNCHANGED <<config, file_text, log_text, official_games, line_i, current_league,
                   updated_lines, unmatched_games, updated_count, skipped_count,
                   run_no, rwVars, matchVars, mainVars, pureVars>>

\* one iteration of the for loop over the lines
ScanLine ==
    /\ pc = "scan"
    /\ line_i < Len(lines)
    /\ \E st \in {scan_line(config, official_games, lines[line_i + 1],
                            ScanState(current_league, updated_lines, unmatched_games,
                                      updated_count, skipped_count))} :
           /\ current_league' = st.current_league
           /\ updated_lines' = st.updated_lines
           /\ unmatched_games' = st.unmatched_games
           /\ updated_count' = st.updated_count
           /\ skipped_count' = st.skipped_count
    /\ line_i' = line_i + 1
    /\ UNCHANGED <<config, file_text, log_text, official_games, lines, pc, result,
                   run_no, rwVars, matchVars, mainVars, pureVars>>

\* the file is written, then the log when an entry is unmatched, and the
\* counts are returned
Finish ==
    /\ pc = "scan"
    /\ line_i = Len(lines)
    /\ file_text' = JoinLines(updated_lines)
    /\ log_text' = IF unmatched_games # <<>>
                   THEN <<unmatched_log(config, unmatched_games)>>
                   ELSE log_text
    /\ result' = <<updated_count, skipped_count>>
    /\ pc' = "done"
    /\ UNCHANGED <<config, official_games, lines, line_i, current_league, updated_lines,
                   unmatched_games, updated_count, skipped_count, run_no,
                   rwVars, matchVars, mainVars, pureVars>>

FileNext == Begin \/ ScanLine \/ Finish

SpecFile == FileInit /\ [][FileNext]_vars

---------------------------------------------------------------------------
(* Successive runs of process_schedule_file over the same file *)

MaxRuns == 2

RunsInit ==
    /\ config = AsvelConfig
    \* the files: a league header and two future games, or some of them
    /\ file_text \in {JoinLines(Pick(<<FileLines[1], FileLines[5], FileLines[6]>>, S, 1)) :
                         S \in SUBSET (1..3)}
    /\ log_text = None
    \* the pools: the candidates of the two games, or one, or none
    /\ official_games \in {Pick(<<FileCandidates[1], FileCandidates[2]>>, S, 1) :
                              S \in SUBSET (1..2)}
    /\ lines = <<>>
    /\ line_i = 0
    /\ current_league = None
    /\ updated_lines = <<>>
    /\ unmatched_games = <<>>
    /\ updated_count = 0
    /\ skipped_count = 0
    /\ pc = "start"
    /\ result = None
    /\ run_no = 0
    /\ RwIdle /\ MatchIdle /\ MainIdle /\ PureIdle

\* the next run over the file: the file and the log are as the run before
\* left them, the locals are new and the fetch delivers a pool of its own
RunAgain ==
    /\ pc = "done"
    /\ run_no + 1 < MaxRuns
    /\ run_no' = run_no + 1
    /\ official_games' \in {Pick(<<FileCandidates[1], FileCandidates[2]>>, S, 1) :
                               S \in SUBSET (1..2)}
    /\ lines' = <<>>
    /\ line_i' = 0
    /\ current_league' = None
    /\ updated_lines' = <<>>
    /\ unmatched_games' = <<>>
    /\ updated_count' = 0
    /\ skipped_count' = 0
    /\ pc' = "start"
    /\ result' = None
    /\ UNCHANGED <<config, file_text, log_text, rwVars, matchVars, mainVars, pureVars>>

RunsNext == Begin \/ ScanLine \/ Finish \/ RunAgain

SpecRuns == RunsInit /\ [][RunsNext]_vars

---------------------------------------------------------------------------
(* One call of extract_game_info on a line under a league *)

ParseInit ==
    \* the schedule line shapes above, the lines of test_parsing.py, and lines
    \* with a marker at the start, a marker without opponent, or no date
    /\ p_line \in RwLines \cup
        {"Nov 13, 2025 - vs Valencia Basket @ Halle Georges Carpentier Arena, 2:45 PM ET",
         "Nov 12, 2025 - @ AX Armani Exchange Milan @ Mediolanum Forum, 2:30 PM ET",
         "Oct 1, 2025 - vs Valencia Basket @ Astroballe",
         "Nov 19, 2025 - vs AS Monaco Basket @ Astroballe, 2:00 PM ET",
         "@ Paris, Oct 1, 2025",
         "  @ Paris vs Lyon, Oct 1, 2025",
         "Oct 1, 2025 - vs @ Astroballe",
         "Oct 1, 2025 - vs",
         "Oct 1, 2025 - Mavs Lyon",
         "vs Valencia Basket @ Astroballe",
         "Feb 30, 2025 - vs Valencia Basket"}
    /\ p_league \in {"EuroLeague", "LNB Pro A"}
    /\ p_game = None
    /\ p_pc = "call"
    /\ n_name = "" /\ n_out = <<>>
    /\ c_local = None /\ c_tz = "" /\ c_out = None
    /\ RwIdle /\ MatchIdle /\ FileIdle /\ MainIdle

Parse ==
    /\ p_pc = "call"
    /\ p_game' = extract_game_info(p_line, p_league)
    /\ p_pc' = "returned"
    /\ UNCHANGED <<p_line, p_league, normVars, convVars, rwVars, matchVars, fileVars, mainVars>>

ParseNext == Parse

SpecParse == ParseInit /\ [][ParseNext]_vars

---------------------------------------------------------------------------
(* normalize_team_name applied MaxNormalize times to a name *)

MaxNormalize == 2

NormInit ==
    \* a club name, then nothing or a token normalize_team_name removes, the
    \* same in another case, or a text in which the removal of one token puts
    \* another together, then nothing or more text
    /\ n_name \in
         {s \o a \o t :
              s \in {"Valencia", "AS Monaco", "  Real Madrid ", "Olimpia Milano", "KK Partizan"},
              a \in {"", " Basket", " Basketball", " Beko", " FOX", " SAD", " AX",
                     " AX Armani Exchange", " KK ", " CB ", " BASKET", " basket", " kk ",
                     " Bas Basketket", " Bas Bas Basketketket", " K KK K ", " C CB B ",
                     " A AXX", " Bas Bekoket", " S FOXAD",
                     " AX AX Armani Exchange Armani Exchange"},
              t \in {"", "Club", " B"}}
    /\ n_out = <<>>
    /\ p_line = "" /\ p_league = None /\ p_game = None /\ p_pc = "idle"
    /\ c_local = None /\ c_tz = "" /\ c_out = None
    /\ RwIdle /\ MatchIdle /\ FileIdle /\ MainIdle

Normalize ==
    /\ Len(n_out) < MaxNormalize
    /\ n_out' = Append(n_out, normalize_team_name(IF n_out = <<>> THEN n_name
                                                  ELSE n_out[Len(n_out)]))
    /\ UNCHANGED <<n_name, parseVars, convVars, rwVars, matchVars, fileVars, mainVars>>

NormNext == Normalize

SpecNormalize == NormInit /\ [][NormNext]_vars

---------------------------------------------------------------------------
(* The time written for a matched candidate: convert_to_et, then format_time_et *)

ConvInit ==
    \* days of winter and summer time on both sides, the days on which either
    \* side changes its clocks, days between the two changes, a year's end
    /\ c_local \in
         {Kickoff(d[1], d[2], d[3], h, mi) :
              d \in {<<2025, 11, 13>>, <<2025, 10, 1>>, <<2025, 3, 9>>, <<2025, 3, 20>>,
                     <<2025, 3, 30>>, <<2025, 10, 26>>, <<2025, 10, 30>>, <<2025, 11, 2>>,
                     <<2025, 12, 31>>, <<2026, 1, 1>>, <<2024, 2, 29>>},
              h \in {0, 1, 2, 3, 5, 6, 7, 8, 12, 13, 18, 20, 23},
              mi \in {0, 5, 45, 59}}
    /\ c_tz \in EuropeZones
    /\ c_out = None
    /\ p_line = "" /\ p_league = None /\ p_game = None /\ p_pc = "idle"
    /\ n_name = "" /\ n_out = <<>>
    /\ RwIdle /\ MatchIdle /\ FileIdle /\ MainIdle

Convert ==
    /\ c_out = None
    /\ c_out' = <<format_time_et(convert_to_et(c_local, c_tz))>>
    /\ UNCHANGED <<c_local, c_tz, parseVars, normVars, rwVars, matchVars, fileVars, mainVars>>

ConvNext == Convert

SpecConvert == ConvInit /\ [][ConvNext]_vars

---------------------------------------------------------------------------
(* One run of main over a list of schedule files *)

MaxFiles == 3

MaxCount == 1

\* schedule_files of main
ScheduleNames ==
    <<"adam_atamna_schedule.txt", "mouhamed_faye_schedule.txt",
      "sergio_de_larrea_schedule.txt", "michael_ruzic_schedule.txt">>

\* what a call of process_schedule_file does: it raises, or returns counts
\* of at most MaxCount
ProcessOutcomes ==
    {[raised |-> TRUE, updated |-> 0, skipped |-> 0]}
        \cup {[raised |-> FALSE, updated |-> u, skipped |-> s] :
                  u \in 0..MaxCount, s \in 0..MaxCount}

\* what main prints for a file, and at the end
Report(kind, filename, updated, skipped) ==
    [kind |-> kind, filename |-> filename, updated |-> updated, skipped |-> skipped]

\* the print of one iteration
main_report(f, outcome) ==
    IF ~f.on_disk THEN Report("not_found", f.filename, 0, 0)
    ELSE IF ~f.configured THEN Report("no_config", f.filename, 0, 0)
    ELSE IF outcome.raised THEN Report("failed", f.filename, 0, 0)
    ELSE Report("summary", f.filename, outcome.updated, outcome.skipped)

MainInit ==
    \* at most MaxFiles of the files, each on disk or not (file_path.exists())
    \* and in TEAM_CONFIG or not
    /\ \E n \in 1..Min(MaxFiles, Len(ScheduleNames)) :
           \E facts \in [1..n -> BOOLEAN \X BOOLEAN] :
               schedule_files = [k \in 1..n |-> [filename |-> ScheduleNames[k],
                                                  on_disk |-> facts[k][1],
                                                  configured |-> facts[k][2]]]
    /\ file_i = 0
    /\ total_updated = 0
    /\ total_skipped = 0
    /\ printed = <<>>
    /\ main_pc = "loop"
    /\ RwIdle /\ MatchIdle /\ FileIdle /\ PureIdle

\* MainFile with an exception of process_schedule_file leaving the loop
MainFile_raising_out_of_loop ==
    /\ main_pc = "loop"
    /\ file_i < Len(schedule_files)
    /\ \E f \in {schedule_files[file_i + 1]} : \E outcome \in ProcessOutcomes :
           /\ printed' = Append(printed, main_report(f, outcome))
           /\ total_updated' = total_updated
                  + (IF f.on_disk /\ f.configured /\ ~outcome.raised THEN outcome.updated ELSE 0)
           /\ total_skipped' = total_skipped
                  + (IF f.on_disk /\ f.configured /\ ~outcome.raised THEN outcome.skipped ELSE 0)
           /\ main_pc' = IF f.on_disk /\ f.configured /\ outcome.raised THEN "raised" ELSE "loop"
    /\ file_i' = file_i + 1
    /\ UNCHANGED <<schedule_files, rwVars, matchVars, fileVars, pureVars>>

\* one iteration of the for loop over the files
MainFile ==
    /\ main_pc = "loop"
    /\ file_i < Len(schedule_files)
    /\ \E f \in {schedule_files[file_i + 1]} : \E outcome \in ProcessOutcomes :
           /\ printed' = Append(printed, main_report(f, outcome))
           /\ total_updated' = total_updated
                  + (IF f.on_disk /\ f.configured /\ ~outcome.raised THEN outcome.updated ELSE 0)
           /\ total_skipped' = total_skipped
                  + (IF f.on_disk /\ f.configured /\ ~outcome.raised THEN outcome.skipped ELSE 0)
    /\ file_i' = file_i + 1
    /\ UNCHANGED <<schedule_files, main_pc, rwVars, matchVars, fileVars, pureVars>>

\* the final summary after the loop
MainSummary ==
    /\ main_pc = "loop"
    /\ file_i = Len(schedule_files)
    /\ printed' = Append(printed, Report("final", "", total_updated, total_skipped))
    /\ main_pc' = "done"
    /\ UNCHANGED <<schedule_files, file_i, total_updated, total_skipped,
                   rwVars, matchVars, fileVars, pureVars>>

MainNext == MainFile \/ MainSummary

SpecMain == MainInit /\ [][MainNext]_vars

\* main is sequential code: when an iteration or the summary can run, it does
SpecMainLive == SpecMain /\ WF_vars(MainNext)

---------------------------------------------------------------------------
(* Properties of match_game *)

\* the acceptance test of the fuzzy matcher on two opponent names
NameAccepted(n1, n2) ==
    \/ normalize_team_name(n1) = normalize_team_name(n2)
    \/ ratio(normalize_team_name(n1), normalize_team_name(n2)) >= 80
    \/ partial_ratio(normalize_team_name(n1), normalize_team_name(n2)) >= 85

Eligible(game, official) ==
    /\ <<game.date.year, game.date.month, game.date.day>>
         = <<official.date.year, official.date.month, official.date.day>>
    /\ game.league = official.league
    /\ game.is_home = official.is_home
    /\ NameAccepted(game.opponent, official.opponent)

WholeRatio(game, official) ==
    ratio(normalize_team_name(game.opponent), normalize_team_name(official.opponent))

\* the eligible candidates among the first n of the pool, by index
EligibleSet(n) == {k \in 1..n : Eligible(m_game, m_pool[k])}

\* the largest whole-string ratio over the candidates of S, 0 for no candidate
BestRatio(S) == SetMax({WholeRatio(m_game, m_pool[k]) : k \in S} \cup {0})

\* C1: the best candidate held during the loop and every candidate returned
\* is eligible: same calendar date, league and is_home as the entry, and an
\* opponent name that passes the acceptance test.
C1_ReturnedIsEligible ==
    /\ best_match # 0 => Eligible(m_game, m_pool[best_match])
    /\ \A c \in 1..Len(m_results) :
           m_results[c] # 0 => Eligible(m_game, m_pool[m_results[c]])

\* a candidate was returned from a pool that also holds a candidate with a
\* ratio of 75 that fails the name test and one of the other side
C1_Witness ==
    /\ m_pc = "returned"
    /\ m_results[1] # 0
    /\ \E k \in 1..Len(m_pool) :
           /\ ~NameAccepted(m_game.opponent, m_pool[k].opponent)
           /\ WholeRatio(m_game, m_pool[k]) >= 75
    /\ \E k \in 1..Len(m_pool) : m_pool[k].is_home # m_game.is_home

\* C2: the call returns an eligible candidate whose whole-string ratio is the
\* maximum over the eligible candidates when that maximum is at least 75, and
\* returns no match when there is no eligible candidate or the maximum is at
\* most 74.
C2_ArgmaxAboveFloor ==
    m_results # <<>> =>
        LET S == EligibleSet(Len(m_pool))
            max == BestRatio(S)
        IN  \A c \in 1..Len(m_results) :
                IF S # {} /\ max >= 75
                THEN /\ m_results[c] \in S
                     /\ WholeRatio(m_game, m_pool[m_results[c]]) = max
                ELSE m_results[c] = 0

\* a candidate scoring exactly 75 was returned
C2_Witness ==
    /\ m_pc = "returned"
    /\ m_results[1] # 0
    /\ WholeRatio(m_game, m_pool[m_results[1]]) = 75

\* a pool whose best eligible candidate scores 74 gave no match
C2_WitnessRejected ==
    /\ m_pc = "returned"
    /\ m_results[1] = 0
    /\ EligibleSet(Len(m_pool)) # {}
    /\ BestRatio(EligibleSet(Len(m_pool))) = 74

\* the first index of S whose ratio is the maximum over S, 0 when S is empty
FirstBest(S) ==
    LET max == BestRatio(S)
    IN  IF S = {} THEN 0 ELSE SetMin({k \in S : WholeRatio(m_game, m_pool[k]) = max})

\* C3: among eligible candidates of equal maximum score the first in pool
\* order is kept: after each iteration the best candidate is the first of the
\* consumed candidates that reaches the maximum; repeated calls with the same
\* entry and pool return the same candidate.
C3_FirstSeenWinsTies ==
    /\ m_pc = "loop" => best_match = FirstBest(EligibleSet(m_i))
    /\ m_results # <<>> =>
           LET first == FirstBest(EligibleSet(Len(m_pool)))
               expected == IF first # 0 /\ WholeRatio(m_game, m_pool[first]) >= 75
                           THEN first ELSE 0
           IN  \A c \in 1..Len(m_results) : m_results[c] = expected
    /\ \A c, d \in 1..Len(m_results) : m_results[c] = m_results[d]

\* two calls returned the first of two candidates that tie at the maximum
C3_Witness ==
    /\ Len(m_results) = 2
    /\ m_results[1] # 0
    /\ \E k \in (m_results[1] + 1)..Len(m_pool) :
           /\ Eligible(m_game, m_pool[k])
           /\ WholeRatio(m_game, m_pool[k]) = WholeRatio(m_game, m_pool[m_results[1]])
           /\ m_pool[k] # m_pool[m_results[1]]

---------------------------------------------------------------------------
(* Properties of update_line_with_time *)

\* the argument of the k-th application
RwInput(k) == IF k = 1 THEN rw_line ELSE rw_out[k - 1]

\* C4: rewriting is idempotent: every further application with the same time
\* returns the line the first application returned, so the line never grows.
C4_RewriteIdempotent ==
    \A k \in 2..Len(rw_out) : rw_out[k] = rw_out[1] /\ Len(rw_out[k]) <= Len(rw_out[1])

\* position p of s lies inside a substring that the removal pattern matches
InTimeSuffix(s, p) == \E st \in 1..p : TimeSuffixEnd(s, st) >= p

\* s with every ", H:MM[ AM|PM] ET" substring deleted
RECURSIVE WithoutTimeSuffixes(_, _)
WithoutTimeSuffixes(s, p) ==
    IF p > Len(s) THEN ""
    ELSE (IF InTimeSuffix(s, p) THEN "" ELSE CharAt(s, p)) \o WithoutTimeSuffixes(s, p + 1)

\* the reference result: ", " and the time, then gap, put before the last "@"
\* of the cleaned text, or ", " and the time appended
ReferenceRewrite(line, t, gap) ==
    LET c == WithoutTimeSuffixes(line, 1)
        ats == {p \in 1..Len(c) : CharAt(c, p) = "@"}
        last == CHOOSE p \in ats : \A x \in ats : x <= p
    IN  IF ats # {} /\ CharAt(RStrip(c), Len(RStrip(c))) # "@"
        THEN Slice(c, 1, last - 1) \o ", " \o t \o gap \o From(c, last)
        ELSE c \o ", " \o t

RECURSIVE TimeTokens(_, _)
TimeTokens(s, p) ==
    IF p > Len(s) THEN <<>>
    ELSE IF TimeTokenEnd(s, p) > 0
    THEN <<Slice(s, p, TimeTokenEnd(s, p))>> \o TimeTokens(s, TimeTokenEnd(s, p) + 1)
    ELSE TimeTokens(s, p + 1)

\* C6: when the parser reports an existing time on the line, the rewritten
\* line holds exactly one time token, and it is the new time.
C6_SingleTime ==
    \A k \in 1..Len(rw_out) :
        LET game == extract_game_info(RwInput(k), "EuroLeague")
        IN  (game # None /\ game.existing_time # None)
                => TimeTokens(rw_out[k], 1) = <<rw_time>>

---------------------------------------------------------------------------
(* Properties of process_schedule_file *)

IsBlank(l) == \A k \in 1..Len(l) : IsSpace(CharAt(l, k))

IsComment(l) == StartsWith(LStrip(l), "#")

IsCompleted(l) == Contains(l, "(W ") \/ Contains(l, "(L ")

IsTeamLine(l) ==
    Contains(l, config.team_name) /\ (Contains(l, "Rank:") \/ Contains(l, "Source:"))

\* the categories of lines that are not future-game lines
NotFutureGame(l) ==
    \/ IsBlank(l)
    \/ IsComment(l)
    \/ IsCompleted(l)
    \/ IsTeamLine(l)
    \/ extract_game_info(l, config.leagues[1]) = None

\* the lines of the file as it stands on disk
WrittenLines == SplitLines(file_text)

\* the scan has consumed every line and the file has been written
ScanCompleted == pc = "done" /\ line_i = Len(lines)

\* the time string the scan computes for a matched candidate
TimeOf(match) == format_time_et(convert_to_et(match.local_time, config.timezone))

\* C7: every line that is blank, a comment, a completed game, a team line
\* with Rank: or Source:, or for which extract_game_info returns None is
\* emitted identical to its input, in the scan and in the file on disk at the
\* end, whatever the pool holds.
C7_NonGameLinesUnchanged ==
    /\ \A j \in 1..Len(updated_lines) :
           NotFutureGame(lines[j]) => updated_lines[j] = lines[j]
    /\ pc = "done" =>
           \A j \in 1..Len(lines) :
               NotFutureGame(lines[j]) =>
                   j <= Len(WrittenLines) /\ WrittenLines[j] = lines[j]

\* a finished pass that rewrote a game line and left alone a team line which
\* reads as a game the pool has a candidate for
C7_Witness ==
    /\ ScanCompleted
    /\ result[1] >= 1
    /\ \E j \in 1..Len(lines) :
           /\ IsTeamLine(lines[j])
           /\ extract_game_info(lines[j], "EuroLeague") # None
           /\ match_game(extract_game_info(lines[j], "EuroLeague"), official_games) # None
           /\ WrittenLines[j] = lines[j]

\* C8: at every step the number of emitted lines is the number of consumed
\* lines; at the end the file has as many lines as the input, in the same
\* order, and line j is input line j or update_line_with_time of input line j,
\* the latter only when line j parsed as an entry and matched a candidate.
C8_LineForLine ==
    /\ Len(updated_lines) = line_i
    /\ pc = "done" =>
           /\ Len(WrittenLines) = Len(lines)
           /\ \A j \in 1..Len(lines) :
                  \/ WrittenLines[j] = lines[j]
                  \/ \E k \in 1..Len(config.leagues) :
                         LET game == extract_game_info(lines[j], config.leagues[k])
                             match == match_game(game, official_games)
                         IN  /\ game # None
                             /\ match # None
                             /\ WrittenLines[j] = update_line_with_time(lines[j], TimeOf(match))

\* a finished pass over three lines or more that rewrote a line and kept one
C8_Witness ==
    /\ ScanCompleted
    /\ Len(lines) >= 3
    /\ \E j \in 1..Len(lines) : WrittenLines[j] # lines[j]
    /\ \E j \in 1..Len(lines) : WrittenLines[j] = lines[j]

\* the league named by the most recent of the lines before line j that names
\* a configured league: None or <<league>>
RECURSIVE LeagueAbove(_)
LeagueAbove(j) ==
    IF j <= 1 THEN None
    ELSE LET named == first_league_in(lines[j - 1], config.leagues, 1)
         IN  IF named # None THEN named ELSE LeagueAbove(j - 1)

\* the league of line j: own = TRUE counts line j itself as a header
LeagueFor(j, own) == LeagueAbove(IF own THEN j + 1 ELSE j)

\* the entry parsed at line j under that league, None when none is parsed
EntryAt(j, own) ==
    IF is_skip_line(lines[j], config) \/ LeagueFor(j, own) = None THEN None
    ELSE extract_game_info(lines[j], LeagueFor(j, own)[1])

\* the scan of the first n lines when every entry carries the league
\* LeagueFor: the emitted lines and the unmatched entries, in order
RECURSIVE ScanUpTo(_, _)
ScanUpTo(n, own) ==
    IF n = 0 THEN [out |-> <<>>, unmatched |-> <<>>]
    ELSE LET before == ScanUpTo(n - 1, own)
             game == EntryAt(n, own)
             match == match_game(game, official_games)
         IN  IF game = None THEN [before EXCEPT !.out = Append(before.out, lines[n])]
             ELSE IF match = None
             THEN [out |-> Append(before.out, lines[n]),
                   unmatched |-> Append(before.unmatched, game)]
             ELSE [before EXCEPT !.out = Append(before.out,
                                             update_line_with_time(lines[n], TimeOf(match)))]

UnmatchedUpTo(n, own) == ScanUpTo(n, own).unmatched

\* the scan so far is the scan of entries that carry the league LeagueFor
LeagueScan(own) ==
    /\ current_league = LeagueAbove(line_i + 1)
    /\ LET scan == ScanUpTo(line_i, own)
       IN  /\ unmatched_games = scan.unmatched
           /\ updated_lines = scan.out

\* C9 as stated: the league of each parsed entry is the one named by the
\* most recent header line strictly above the entry's line; a line naming no
\* league leaves current_league unchanged.
C9_LeagueFromAbove == LeagueScan(FALSE)

\* C9: the league of each parsed entry is the one named by the most recent
\* line at or above the entry's line that names a configured league (the
\* entry's own line counts); a line naming no league leaves current_league
\* unchanged and the value carries forward.
C9_LeagueFromAtOrAbove == LeagueScan(TRUE)

\* an entry parsed from a line that names a league other than the one in
\* force above it
C9_Witness ==
    \E j \in 1..line_i :
        /\ EntryAt(j, TRUE) # None
        /\ LeagueAbove(j) # None
        /\ LeagueAbove(j) # LeagueAbove(j + 1)

\* '<Mon> <D>, <YYYY>' as the schedule file writes a date
DateText(dt) ==
    MonthName[dt.month] \o " " \o (IF dt.day < 10 THEN Digit(dt.day) ELSE TwoDigits(dt.day))
        \o ", " \o TwoDigits(dt.year \div 100) \o TwoDigits(dt.year % 100)

\* '<Mon> <D>, <YYYY> - (vs|@) <Opponent>'
EntryText(game) ==
    DateText(game.date) \o " - " \o (IF game.is_home THEN "vs" ELSE "@") \o " " \o game.opponent

\* the lines of the unmatched log
LogLines == IF log_text = None THEN <<>> ELSE SplitLines(log_text[1])

\* C10: every line the scan parses as an entry and match_game finds no
\* candidate for is emitted unchanged, adds one to the skipped counter, is
\* recorded as unmatched, and after the pass is a line of the unmatched log
\* reading '<Mon> <D>, <YYYY> - (vs|@) <Opponent>'.
C10_UnmatchedLogged ==
    /\ unmatched_games = UnmatchedUpTo(line_i, TRUE)
    /\ skipped_count = Len(unmatched_games)
    /\ \A k \in 1..Len(unmatched_games) :
           \E j \in 1..line_i :
               unmatched_games[k].original_line = Strip(lines[j]) /\ updated_lines[j] = lines[j]
    /\ ScanCompleted =>
           /\ result[2] = Len(unmatched_games)
           /\ \A k \in 1..Len(unmatched_games) :
                  \E n \in 1..Len(LogLines) : LogLines[n] = EntryText(unmatched_games[k])

---------------------------------------------------------------------------
(* Properties of successive runs of process_schedule_file *)

\* C11: after any sequence of runs over the same file, the unmatched log
\* holds the team header followed by exactly one line per entry the most
\* recent run left unmatched, in file order, and nothing of an earlier run
\* (a log that does not exist holds no entry).
C11_LogOverwritten ==
    ScanCompleted =>
        IF log_text = None THEN unmatched_games = <<>>
        ELSE log_text[1] = unmatched_log(config, unmatched_games)

---------------------------------------------------------------------------
(* Properties of extract_game_info *)

\* the home marker 'vs ' is detected on the line
HomeDetected == Contains(Strip(p_line), "vs ")

\* the away marker '@ ' is detected on the line, which does not begin with '@'
AwayDetected == Contains(Strip(p_line), "@ ") /\ ~StartsWith(Strip(p_line), "@")

\* C13 as stated: extract_game_info returns an entry only when exactly one
\* of the two markers is detected; a line on which both are detected and a
\* line on which neither is detected yield None.
C13_ExactlyOneMarker ==
    p_pc = "returned" =>
        /\ p_game # None => (HomeDetected /\ ~AwayDetected) \/ (AwayDetected /\ ~HomeDetected)
        /\ (HomeDetected /\ AwayDetected) => p_game = None
        /\ (~HomeDetected /\ ~AwayDetected) => p_game = None

\* C13: extract_game_info returns an entry only when at least one of the two
\* markers is detected; a line on which neither is detected yields None, and
\* an entry is a home game exactly when the home marker is detected, also
\* when the away marker is detected on the same line.
C13_AtLeastOneMarker ==
    p_pc = "returned" =>
        /\ p_game # None => HomeDetected \/ AwayDetected
        /\ (~HomeDetected /\ ~AwayDetected) => p_game = None
        /\ p_game # None => (p_game.is_home <=> HomeDetected)

\* a line with both markers is returned as a home game
C13_Witness ==
    /\ p_pc = "returned"
    /\ HomeDetected /\ AwayDetected
    /\ p_game # None /\ p_game.is_home

---------------------------------------------------------------------------
(* Properties of normalize_team_name *)

\* the tokens normalize_team_name removes
RemovedTokens == {" Basket", " Basketball", " Beko", " FOX", " SAD", " AX", " KK ", " CB "}

\* C14: normalize_team_name is idempotent: applied to its own result it
\* returns that result, also for names in which removing one token brings
\* another removable token into existence.
C14_NormalizeIdempotent ==
    \A k \in 2..Len(n_out) : n_out[k] = n_out[k - 1]

\* normalize_team_name removed something from the name, its result spells a
\* removable token in lower case, and it has been applied to that result
C14_Witness ==
    /\ Len(n_out) >= 2
    /\ n_out[1] # Lower(Strip(n_name))
    /\ \E tok \in RemovedTokens : Contains(n_out[1], Lower(tok))

---------------------------------------------------------------------------
(* Properties of convert_to_et and format_time_et *)

\* 'H:MM AM/PM ET': the hour without a leading zero, the minute in two digits
TimeText(h, mi, ap) ==
    (IF h < 10 THEN Digit(h) ELSE TwoDigits(h)) \o ":" \o TwoDigits(mi) \o " " \o ap \o " ET"

\* the minute of the day of the 12-hour reading h:mi ap
MinuteOfDay(h, mi, ap) == ((h % 12) + (IF ap = "PM" THEN 12 ELSE 0)) * 60 + mi

\* central European summer time is in force at the UTC instant u: from
\* 01:00 UTC on the last Sunday of March to 01:00 UTC on the last Sunday of October
EuropeSummerAt(u) ==
    LET y == CivilFromDays(u \div 1440)[1]
    IN  /\ WallMinutes(y, 3, LastSunday(y, 3), 1, 0) <= u
        /\ u < WallMinutes(y, 10, LastSunday(y, 10), 1, 0)

\* the UTC instants at which the clocks of the source timezone show local
LocalInstants(local) ==
    LET w == WallMinutes(local.year, local.month, local.day, local.hour, local.minute)
    IN  {u \in {w - 60, w - 120} : u + (IF EuropeSummerAt(u) THEN 120 ELSE 60) = w}

\* the clocks of America/New_York show the wall time w (minutes) at the UTC
\* instant u: w is u minus four hours and lies in daylight time (03:00 on
\* the second Sunday of March up to 02:00 on the first Sunday of November),
\* or w is u minus five hours and lies in standard time (up to 02:00 on the
\* second Sunday of March, from 01:00 on the first Sunday of November)
EasternShows(u, w) ==
    LET y == CivilFromDays(w \div 1440)[1]
        spring == WallMinutes(y, 3, NthSunday(y, 3, 2), 2, 0)
        autumn == WallMinutes(y, 11, NthSunday(y, 11, 1), 2, 0)
    IN  \/ w = u - 240 /\ spring + 60 <= w /\ w < autumn
        \/ w = u - 300 /\ (w < spring \/ autumn - 60 <= w)

\* the text reads h:mi ap and a New York clock shows that time of day at an
\* instant at which the source clock shows local
DenotesKickoff(text, local) ==
    \E h \in 1..12, mi \in 0..59, ap \in {"AM", "PM"} :
        /\ text = TimeText(h, mi, ap)
        /\ \E u \in LocalInstants(local) :
               \E day \in {u \div 1440 - 1, u \div 1440} :
                   EasternShows(u, day * 1440 + MinuteOfDay(h, mi, ap))

\* the wall time exists in the source timezone (it is not skipped by the
\* change to summer time)
LocalExists(local) == LocalInstants(local) # {}

\* C15: the time written for a matched candidate denotes the instant of the
\* candidate's kickoff_local in the team's timezone, expressed in
\* America/New_York and formatted 'H:MM AM/PM ET' with the hour in 1..12
\* without leading zero and a two-digit minute; a kickoff of 20:45 on
\* 2025-11-13 in Europe/Paris is written '2:45 PM ET'.
C15_SameInstantInEastern ==
    c_out # None =>
        /\ \E h \in 1..12, mi \in 0..59, ap \in {"AM", "PM"} : c_out[1] = TimeText(h, mi, ap)
        /\ LocalExists(c_local) => DenotesKickoff(c_out[1], c_local)
        /\ (c_local = Kickoff(2025, 11, 13, 20, 45) /\ c_tz = "Europe/Paris")
               => c_out[1] = "2:45 PM ET"

\* the kickoff of 20:45 on 2025-11-13 in Europe/Paris has been converted
C15_Witness ==
    /\ c_local = Kickoff(2025, 11, 13, 20, 45)
    /\ c_tz = "Europe/Paris"
    /\ c_out = <<"2:45 PM ET">>

---------------------------------------------------------------------------
(* Properties of update_line_with_time as extract_game_info reads its result *)

\* the entries read before and after a rewrite agree on date, opponent and
\* is_home, and the entry read after it reports the time t
SameReading(before, after, t) ==
    /\ after # None
    /\ after.date = before.date
    /\ after.opponent = before.opponent
    /\ after.is_home = before.is_home
    /\ after.existing_time = <<t>>

\* C16: for every line that extract_game_info accepts, under any league, and
\* every well-formed time t, extract_game_info accepts
\* update_line_with_time(line, t) and reads the same date, opponent and
\* is_home from it, with existing_time equal to t.
C16_RewriteKeepsReading ==
    \A k \in 1..Len(rw_out) : \A league \in {"EuroLeague", "LNB Pro A"} :
        extract_game_info(RwInput(k), league) # None
            => SameReading(extract_game_info(RwInput(k), league),
                           extract_game_info(rw_out[k], league), rw_time)

---------------------------------------------------------------------------
(* Properties of the counters of process_schedule_file *)

\* the line contains a configured league name, in any case
NamesLeague(l) ==
    \E k \in 1..Len(config.leagues) : Contains(Upper(l), Upper(config.leagues[k]))

\* blank, team name with 'Rank:' or 'Source:', or completed game
IsSkipLine(l) == IsBlank(l) \/ IsTeamLine(l) \/ IsCompleted(l)

\* the lines among the first n that are not skip lines, occur at or after
\* the first line containing a configured league name, and parse as an entry
CountedLines(n) ==
    {j \in 1..n :
        /\ ~IsSkipLine(lines[j])
        /\ \E k \in 1..j : NamesLeague(lines[k])
        /\ extract_game_info(lines[j], config.leagues[1]) # None}

\* the counters after the lines consumed so far, and the value returned
C17_CountersState ==
    (pc \in {"scan", "done"} /\ official_games # <<>>) =>
        /\ updated_count + skipped_count = Cardinality(CountedLines(line_i))
        /\ Len(unmatched_games) = skipped_count
        /\ pc = "done" => result = <<updated_count, skipped_count>>

\* the counters over one iteration of the loop
C17_CountersStep ==
    line_i' = line_i + 1 =>
        /\ updated_count' - updated_count \in {0, 1}
        /\ skipped_count' - skipped_count \in {0, 1}
        /\ updated_count' = updated_count \/ skipped_count' = skipped_count
        /\ (line_i + 1) \notin CountedLines(line_i + 1)
               => updated_count' = updated_count /\ skipped_count' = skipped_count

\* C17: with a non-empty pool, updated + skipped equals the number of lines
\* that are not skip lines, occur at or after the first line containing a
\* configured league name, and parse as an entry; the number of recorded
\* unmatched entries equals skipped; every line increments at most one of
\* the two counters, and skip lines and lines before the first league
\* header increment neither.
C17_CountersOfScan == []C17_CountersState /\ [][C17_CountersStep]_vars

\* a completed scan that updated a line, skipped a line and counted neither
\* for a third
C17_Witness ==
    /\ ScanCompleted
    /\ updated_count >= 1
    /\ skipped_count >= 1
    /\ Cardinality(CountedLines(line_i)) < Len(lines)

\* an empty pool ends the run in one step that leaves the file and the log
\* as they were
C18_EmptyPoolStep ==
    (pc = "start" /\ official_games = <<>> /\ pc' # "start") =>
        /\ pc' = "done"
        /\ result' = <<0, 0>>
        /\ file_text' = file_text
        /\ log_text' = log_text

\* after it no line has been scanned, emitted, counted or recorded
C18_EmptyPoolState ==
    (pc = "done" /\ official_games = <<>>) =>
        /\ result = <<0, 0>>
        /\ line_i = 0
        /\ updated_lines = <<>>
        /\ unmatched_games = <<>>
        /\ updated_count = 0
        /\ skipped_count = 0

\* C18: when the pool of official games is empty, process_schedule_file
\* returns (0, 0) before scanning any line: the schedule file is not
\* written, no unmatched log is written or changed, and no entry is counted
\* as updated or skipped, whatever lines the file contains.
C18_EmptyPoolReturnsEarly == [][C18_EmptyPoolStep]_vars /\ []C18_EmptyPoolState

\* a run with an empty pool has returned over a file that holds a game line,
\* beside the log an earlier run wrote
C18_Witness ==
    /\ pc = "done"
    /\ official_games = <<>>
    /\ run_no >= 1
    /\ log_text # None
    /\ \E j \in 1..Len(lines) : extract_game_info(lines[j], config.leagues[1]) # None

---------------------------------------------------------------------------
(* Properties of main *)

\* the sum of field over the reports of kind "summary" among the first n
RECURSIVE SummarySum(_, _)
SummarySum(n, field) ==
    IF n = 0 THEN 0
    ELSE SummarySum(n - 1, field)
             + (IF printed[n].kind = "summary"
                THEN (IF field = "updated" THEN printed[n].updated ELSE printed[n].skipped)
                ELSE 0)

\* the report of the k-th file is about that file and of the kind its facts
\* call for: a missing file and a file without configuration are reported as
\* such, any other by its summary or by the failure of its processing
ReportedAsHandled(k) ==
    /\ printed[k].filename = schedule_files[k].filename
    /\ ~schedule_files[k].on_disk => printed[k].kind = "not_found"
    /\ (schedule_files[k].on_disk /\ ~schedule_files[k].configured)
           => printed[k].kind = "no_config"
    /\ (schedule_files[k].on_disk /\ schedule_files[k].configured)
           => printed[k].kind \in {"summary", "failed"}

\* every file consumed so far has its report, and the totals are the sums
\* over the files that were processed without failure
C12_Confined ==
    /\ file_i <= Len(printed)
    /\ \A k \in 1..file_i : ReportedAsHandled(k)
    /\ total_updated = SummarySum(file_i, "updated")
    /\ total_skipped = SummarySum(file_i, "skipped")
    /\ main_pc = "done" =>
           /\ file_i = Len(schedule_files)
           /\ printed[Len(printed)] = Report("final", "", total_updated, total_skipped)

\* C12: in a multi-file run of main, a failure while processing one file
\* (missing file, missing config, an exception of process_schedule_file) is
\* reported and confined to that file: every remaining file is still
\* processed, the totals include the counts of every file that succeeded,
\* and the run reaches its final summary.
C12_FailureConfined == []C12_Confined /\ <>(main_pc = "done")

\* a run whose first file failed, whose later file returned counts, and that
\* reached the summary with those counts
C12_Witness ==
    /\ main_pc = "done"
    /\ Len(schedule_files) >= 2
    /\ printed[1].kind = "failed"
    /\ \E k \in 2..Len(schedule_files) : printed[k].kind = "summary" /\ printed[k].updated >= 1
    /\ total_updated >= 1

=============================================================================
